---- MODULE Spec2Model ----
(***************************************************************************)
(* Habit streak tracker (src/habits.py).                                   *)
(*                                                                         *)
(* Text is modelled as a sequence of one-character strings, so that the    *)
(* regular expression \[day\s(\d+)\/(\d+)] , str.format and int() are      *)
(* computed on characters, as the program computes them.                   *)
(***************************************************************************)
EXTENDS Integers, Sequences, FiniteSets

\* ------------------------------------------------------------------------
\* Bounds of the model
\* ------------------------------------------------------------------------
\* last calendar day (of May 2024) the wall clock reaches
MaxDay == 2
\* number of runs of main() that reach update_streak in one behaviour
MaxRuns == 2
\* largest streak / goal argument handed to set_streak directly
MaxNum == 2
\* number of operations applied to the single task of SpecTask
MaxOps == 2

\* ------------------------------------------------------------------------
\* Characters, int() and str.format of an integer
\* ------------------------------------------------------------------------
Digits == <<"0", "1", "2", "3", "4", "5", "6", "7", "8", "9">>

DigitSet == {Digits[k] : k \in 1..10}

DigitValue == [c \in DigitSet |-> (CHOOSE k \in 1..10 : Digits[k] = c) - 1]

\* \d of the pattern
IsDigit(c) == c \in DigitSet

DigitVal(c) == DigitValue[c]

\* \s of the pattern
IsSpace(c) == c \in {" ", "\t", "\n"}

\* int(group): base-10 value of a run of digits (leading zeros allowed)
RECURSIVE ParsePrefix(_, _)
ParsePrefix(ds, n) ==
    IF n = 0 THEN 0 ELSE ParsePrefix(ds, n - 1) * 10 + DigitVal(ds[n])

ParseInt(ds) == ParsePrefix(ds, Len(ds))

\* '{}'.format(n): plain base-10, no padding, '-' for a negative number
RECURSIVE FormatInt(_)
FormatInt(n) ==
    IF n < 0 THEN <<"-">> \o FormatInt(0 - n)
    ELSE IF n < 10 THEN <<Digits[n + 1]>>
    ELSE FormatInt(n \div 10) \o <<Digits[(n % 10) + 1]>>

\* ------------------------------------------------------------------------
\* The pattern r'\[day\s(\d+)\/(\d+)]'
\* ------------------------------------------------------------------------
\* the result of a failed re.search (None)
NoMatch == [start |-> 0, stop |-> 0, g1 |-> <<>>, g2 |-> <<>>]

\* last position of the maximal run of digits of s that starts at i
\* (i - 1 when s[i] is not a digit)
RECURSIVE DigitRunEnd(_, _)
DigitRunEnd(s, i) ==
    IF i <= Len(s) /\ IsDigit(s[i]) THEN DigitRunEnd(s, i + 1) ELSE i - 1

\* the match of the pattern that starts exactly at position i, or NoMatch
MatchAt(s, i) ==
    IF s[i] # "[" THEN NoMatch
    ELSE IF i + 4 > Len(s) THEN NoMatch
    ELSE IF ~(s[i + 1] = "d" /\ s[i + 2] = "a" /\ s[i + 3] = "y"
              /\ IsSpace(s[i + 4])) THEN NoMatch
    ELSE LET e1 == DigitRunEnd(s, i + 5) IN
         IF e1 < i + 5 \/ e1 + 1 > Len(s) THEN NoMatch
         ELSE IF s[e1 + 1] # "/" THEN NoMatch
         ELSE LET e2 == DigitRunEnd(s, e1 + 2) IN
              IF e2 < e1 + 2 \/ e2 + 1 > Len(s) THEN NoMatch
              ELSE IF s[e2 + 1] # "]" THEN NoMatch
              ELSE [start |-> i, stop |-> e2 + 1,
                    g1 |-> SubSeq(s, i + 5, e1),
                    g2 |-> SubSeq(s, e1 + 2, e2)]

\* re.search(pattern, s) scanning from position i: the leftmost match
RECURSIVE SearchFrom(_, _)
SearchFrom(s, i) ==
    IF i > Len(s) THEN NoMatch
    ELSE LET m == MatchAt(s, i) IN
         IF m # NoMatch THEN m ELSE SearchFrom(s, i + 1)

re_search(s) == SearchFrom(s, 1)

\* re.sub(pattern, repl, s) from position i: count = 0, so EVERY
\* non-overlapping match, left to right, is replaced by repl
RECURSIVE SubFrom(_, _, _)
SubFrom(s, repl, i) ==
    IF i > Len(s) THEN <<>>
    ELSE LET m == MatchAt(s, i) IN
         IF m # NoMatch THEN repl \o SubFrom(s, repl, m.stop + 1)
         ELSE <<s[i]>> \o SubFrom(s, repl, i + 1)

re_sub(repl, s) == SubFrom(s, repl, 1)

FormatDays_NoGoal(streak, goal) ==
    <<"[", "d", "a", "y", " ">> \o FormatInt(streak) \o <<"]">>

\* '[day {}/{}]'.format(streak, goal)
FormatDays(streak, goal) ==
    <<"[", "d", "a", "y", " ">> \o FormatInt(streak) \o <<"/">>
        \o FormatInt(goal) \o <<"]">>

\* ------------------------------------------------------------------------
\* Dates and due values
\* ------------------------------------------------------------------------
\* now.strftime(TODOIST_DATE_FORMAT) for day d of May 2024: "2024-05-dd"
TODOIST_DATE_FORMAT(d) ==
    <<"2", "0", "2", "4", "-", "0", "5", "-",
      Digits[(d \div 10) + 1], Digits[(d % 10) + 1]>>

\* Python's None where a string is expected
PyNone == <<"None">>

\* item['due'] is None
NoneDue == [isdict |-> FALSE, hasdate |-> FALSE, date |-> <<>>,
            fmt |-> "", arg |-> <<>>]

\* item['due'] as the store sends it: {'date': d, 'string': 'every day'}
StoreDue(d) == [isdict |-> TRUE, hasdate |-> TRUE, date |-> d,
                fmt |-> "every day", arg |-> <<>>]

\* {'string': 'ev day starting {}'.format(today)}: a dict without 'date'
DueString(today) == [isdict |-> TRUE, hasdate |-> FALSE, date |-> <<>>,
                     fmt |-> "ev day starting {}", arg |-> today]

\* due.get('date')
DictGetDate(due) == IF due.hasdate THEN due.date ELSE PyNone

\* ------------------------------------------------------------------------
\* class Task: every method is an operator on the item it wraps
\* ------------------------------------------------------------------------
get_habit(item) == re_search(item.content)

is_habit_DueOnly(item) ==
    /\ get_habit(item) # NoMatch
    /\ item.due.isdict
    /\ ~item.in_history

is_habit_IgnoreHistory(item) ==
    /\ get_habit(item) # NoMatch
    /\ IF item.due.isdict THEN DictGetDate(item.due) \notin {PyNone, <<>>}
       ELSE FALSE

\* all([habit, due date if due else None, not in_history])
is_habit(item) ==
    /\ get_habit(item) # NoMatch
    /\ IF item.due.isdict THEN DictGetDate(item.due) \notin {PyNone, <<>>}
       ELSE FALSE
    /\ ~item.in_history

due_date(item) == DictGetDate(item.due)

is_due(item, today) == due_date(item) # today

current_streak(item) == ParseInt(get_habit(item).g1)

current_goal(item) == ParseInt(get_habit(item).g2)

set_streak_Swapped(item, streak, goal) ==
    [item EXCEPT !.content = re_sub(FormatDays(goal, streak), item.content)]

set_streak(item, streak, goal) ==
    [item EXCEPT !.content = re_sub(FormatDays(streak, goal), item.content)]

increase_GoalToo(item, n) ==
    set_streak(item, current_streak(item) + n, current_goal(item) + n)

increase(item, n) ==
    set_streak(item, current_streak(item) + n, current_goal(item))

Max(a, b) == IF a >= b THEN a ELSE b

decrease_NoFloor(item, today) ==
    [set_streak(item, current_streak(item) - 1, current_goal(item))
        EXCEPT !.due = DueString(today)]

decrease(item, today) ==
    LET streak == Max(0, current_streak(item) - 1) IN
    [set_streak(item, streak, current_goal(item))
        EXCEPT !.due = DueString(today)]

reset_to_zero_Decrease(item, today) == decrease(item, today)

reset_to_zero_GoalToo(item, today) ==
    [set_streak(item, 0, 0) EXCEPT !.due = DueString(today)]

reset_to_zero_AndDelete(item, today) ==
    [set_streak(item, 0, current_goal(item))
        EXCEPT !.due = DueString(today), !.is_deleted = (0 >= current_goal(item))]

reset_to_zero(item, today) ==
    [set_streak(item, 0, current_goal(item)) EXCEPT !.due = DueString(today)]

habbit_complete_Equal(item) == current_streak(item) = current_goal(item)

habbit_complete(item) == current_streak(item) >= current_goal(item)

delete_task(item) == [item EXCEPT !.is_deleted = TRUE]

\* ------------------------------------------------------------------------
\* Inputs: the items the store can hold
\* ------------------------------------------------------------------------
\* number of items in api.state['items']
NItems == 2

Ids == 1..NItems

Token(ws, sd, gd) == <<"[", "d", "a", "y", ws>> \o sd \o <<"/">> \o gd \o <<"]">>

\* item['content'] that holds a streak token
HabitBelowGoal == Token(" ", <<"0">>, <<"2">>)

HabitNearGoal == <<"a">> \o Token(" ", <<"9">>, <<"1", "0">>)

HabitPastGoal ==
    Token(" ", <<"0">>, <<"0">>) \o <<" ">> \o Token(" ", <<"5">>, <<"7">>)

\* item['content'] without a streak token
PlainContents == { <<"r", "u", "n">> }

\* item['content'] of the single task of SpecTask
TaskContents ==
    {HabitBelowGoal, HabitNearGoal, HabitPastGoal} \cup PlainContents \cup
    { Token("\t", <<"0", "7">>, <<"0", "1", "0">>) \o <<"!">>,
      Token(" ", <<"3">>, <<"2">>),
      <<"[", "d", "a", "y", " ", "1", "/", "2">>,
      <<"x", " ">> \o Token(" ", <<"1">>, <<"3">>) \o <<"[", "d", "a", "y">>
          \o Token("\n", <<"2">>, <<"2">>) }

Days == 1..MaxDay

\* a due date that carries a time of day: "2024-05-ddT09:00:00"
DateTime(d) ==
    TODOIST_DATE_FORMAT(d) \o <<"T", "0", "9", ":", "0", "0", ":", "0", "0">>

\* the items of a run that are active habits
ActiveInputs ==
    [content : {HabitBelowGoal},
     due : {StoreDue(TODOIST_DATE_FORMAT(d)) : d \in Days} \cup {StoreDue(DateTime(1))},
     in_history : {FALSE}, is_deleted : {FALSE}]
    \cup
    [content : {HabitNearGoal},
     due : {StoreDue(TODOIST_DATE_FORMAT(1))},
     in_history : {FALSE}, is_deleted : {FALSE}]
    \cup
    [content : {HabitPastGoal},
     due : {StoreDue(TODOIST_DATE_FORMAT(MaxDay))},
     in_history : {FALSE}, is_deleted : {FALSE}]

\* the items of a run that are not: each way of failing the three conditions
InactiveInputs ==
    [content : {HabitBelowGoal},
     due : {StoreDue(<<>>)},
     in_history : {FALSE}, is_deleted : {FALSE}]
    \cup
    [content : {HabitBelowGoal},
     due : {StoreDue(TODOIST_DATE_FORMAT(1)), NoneDue},
     in_history : {TRUE}, is_deleted : {FALSE}]
    \cup
    [content : PlainContents,
     due : {StoreDue(TODOIST_DATE_FORMAT(1)), NoneDue},
     in_history : BOOLEAN, is_deleted : {FALSE}]

ItemInputs == ActiveInputs \cup InactiveInputs

TaskInputs ==
    [content : TaskContents, due : {NoneDue, StoreDue(TODOIST_DATE_FORMAT(1))},
     in_history : BOOLEAN, is_deleted : {FALSE}]

\* the streak and goal arguments handed to set_streak directly
Nums == (0..MaxNum) \cup {9 + MaxNum}

\* os.getenv('TODOIST_APIKEY'): unset, empty or set
EnvTokens == {"None", "", "key"}

\* ------------------------------------------------------------------------
\* State
\* ------------------------------------------------------------------------
VARIABLES
    clock,      \* day of May 2024 the wall clock shows in the user's timezone
    items,      \* api.state['items'], by id
    pc,         \* "idle" (never run), "loop" (line 140), "reset" (line 144),
                \* "done" (main returned) or "error" (get_token raised)
    snapshot,   \* the enumeration `for item in items` of this pass
    idx,        \* position of the loop in snapshot
    queue,      \* commands queued by item.update / item.delete
    commits,    \* calls of api.commit() in this run
    syncs,      \* calls of api.sync() in this run
    runs,       \* runs of main() that reached update_streak, so far
    env,        \* os.getenv('TODOIST_APIKEY') as the last process found it
    pre,        \* history: items as the latest process found them at its start
    ev,         \* history: per item, whether this pass is done with it and the
                \* clock day self.today showed at line 143 (cmp) and 144 (arg)
    changed,    \* history: per item, streak rewrites on the current clock day
    t,          \* SpecTask: the item of the single task
    t_last,     \* SpecTask: the last method applied and the item before it
    t_n,        \* SpecTask: number of methods applied
    t_goal      \* SpecTask history: the goal of the first token at the start
                \* or as the last set_streak wrote it

runVars == <<clock, items, pc, snapshot, idx, queue, commits, syncs, runs,
             env, pre, ev, changed>>

taskVars == <<t, t_last, t_n, t_goal>>

vars == <<clock, items, pc, snapshot, idx, queue, commits, syncs, runs,
          env, pre, ev, changed, t, t_last, t_n, t_goal>>

NotEvaluated == [done |-> FALSE, cmp |-> 0, arg |-> 0]

NoOp == [op |-> "none", streak |-> 0, goal |-> 0, today |-> PyNone,
         before |-> [content |-> <<>>, due |-> NoneDue, in_history |-> FALSE,
                     is_deleted |-> FALSE]]

InitRun ==
    /\ clock = 1
    /\ items \in [Ids -> ItemInputs]
    /\ pc = "idle"
    /\ snapshot = <<>>
    /\ idx = 1
    /\ queue = <<>>
    /\ commits = 0
    /\ syncs = 0
    /\ runs = 0
    /\ env = "key"
    /\ pre = items
    /\ ev = [i \in Ids |-> NotEvaluated]
    /\ changed = [i \in Ids |-> 0]

IdleTask ==
    /\ t = NoOp.before
    /\ t_last = NoOp
    /\ t_n = 0
    /\ t_goal = 0

Init == InitRun /\ IdleTask

\* ------------------------------------------------------------------------
\* main(): Todoist() then update_streak()
\* ------------------------------------------------------------------------
\* Todoist.today
today == TODOIST_DATE_FORMAT(clock)

get_token_NoneOnly(e) == e # "None"

\* get_token() returns the token (TRUE) or raises (FALSE)
get_token(e) == e \notin {"None", ""}

\* api.sync(): the store has resolved a recurrence string 'ev day starting D'
\* written by the previous run into a due date D
SyncItem(item) ==
    IF item.due.isdict /\ ~item.due.hasdate /\ item.due.fmt = "ev day starting {}"
    THEN [item EXCEPT !.due.hasdate = TRUE, !.due.date = item.due.arg]
    ELSE item

\* the items api.state['items'] holds after a sync: deleted ones are gone
Live(its) == {i \in Ids : ~its[i].is_deleted}

\* the list api.state['items'] of the ids in S, in the order of the store
\* (Init puts every item at every position, so one order stands for all)
RECURSIVE Listing(_)
Listing(S) ==
    IF S = {} THEN <<>>
    ELSE LET m == CHOOSE a \in S : \A b \in S : a >= b IN
         Listing(S \ {m}) \o <<m>>

\* lines 146-148: increase, then delete when the goal is reached
IncrementStep(item) ==
    LET it == increase(item, 1) IN
    IF habbit_complete(it) THEN delete_task(it) ELSE it

\* lines 141-148: the body of the loop for one item, given the today of
\* line 143 and the today of line 144
Evaluate(item, today143, today144) ==
    IF ~is_habit(item) THEN item
    ELSE IF is_due(item, today143) THEN reset_to_zero(item, today144)
    ELSE IncrementStep(item)

\* the commands lines 146-148 queue for item i
IncrementCmds(i, item) ==
    IF habbit_complete(increase(item, 1))
    THEN <<[type |-> "item_update", id |-> i], [type |-> "item_delete", id |-> i]>>
    ELSE <<[type |-> "item_update", id |-> i]>>

\* a new process runs main() (none is running: the last one, if any, has
\* returned or died): Todoist.__init__ with a usable token syncs, and
\* update_streak enters its loop
Start ==
    /\ pc \in {"idle", "done", "error"}
    /\ runs < MaxRuns
    /\ \E e \in EnvTokens : get_token(e) /\ env' = e
    /\ items' = [i \in Ids |-> SyncItem(items[i])]
    /\ snapshot' = Listing(Live(items))
    /\ pre' = items'
    /\ ev' = [i \in Ids |-> NotEvaluated]
    /\ idx' = 1
    /\ queue' = <<>>
    /\ commits' = 0
    /\ syncs' = 1
    /\ runs' = runs + 1
    /\ pc' = "loop"
    /\ UNCHANGED <<clock, changed>>
    /\ UNCHANGED taskVars

\* a new process runs main() and get_token raises in Todoist.__init__: the
\* process dies before it has touched the store
StartFail ==
    /\ pc \in {"idle", "done", "error"}
    /\ \E e \in EnvTokens : ~get_token(e) /\ env' = e
    /\ pc' = "error"
    /\ snapshot' = <<>>
    /\ idx' = 1
    /\ queue' = <<>>
    /\ commits' = 0
    /\ syncs' = 0
    /\ pre' = items
    /\ ev' = [i \in Ids |-> NotEvaluated]
    /\ UNCHANGED <<clock, items, runs, changed>>
    /\ UNCHANGED taskVars

Skip_Break ==
    /\ pc = "loop"
    /\ idx <= Len(snapshot)
    /\ LET i == snapshot[idx] IN
        /\ ~is_habit(items[i])
        /\ ev' = [ev EXCEPT ![i].done = TRUE]
    /\ idx' = Len(snapshot) + 1
    /\ UNCHANGED <<clock, items, pc, snapshot, queue, commits, syncs, runs,
                   pre, changed>>
    /\ UNCHANGED taskVars
    /\ UNCHANGED env

\* line 142, is_habit() false: nothing is done to the item
Skip ==
    /\ pc = "loop"
    /\ idx <= Len(snapshot)
    /\ LET i == snapshot[idx] IN
        /\ ~is_habit(items[i])
        /\ ev' = [ev EXCEPT ![i].done = TRUE]
    /\ idx' = idx + 1
    /\ UNCHANGED <<clock, items, pc, snapshot, queue, commits, syncs, runs,
                   pre, changed>>
    /\ UNCHANGED taskVars
    /\ UNCHANGED env

\* line 143, is_due(self.today) true: the loop goes on to line 144
IsDue ==
    /\ pc = "loop"
    /\ idx <= Len(snapshot)
    /\ LET i == snapshot[idx] IN
        /\ is_habit(items[i])
        /\ is_due(items[i], today)
        /\ ev' = [ev EXCEPT ![i].cmp = clock]
    /\ pc' = "reset"
    /\ UNCHANGED <<clock, items, snapshot, idx, queue, commits, syncs, runs,
                   pre, changed>>
    /\ UNCHANGED taskVars
    /\ UNCHANGED env

\* line 144: reset_to_zero(self.today), with today read again
Reset ==
    /\ pc = "reset"
    /\ LET i == snapshot[idx] IN
        /\ items' = [items EXCEPT ![i] = reset_to_zero(items[i], today)]
        /\ ev' = [ev EXCEPT ![i].arg = clock, ![i].done = TRUE]
        /\ queue' = queue \o <<[type |-> "item_update", id |-> i],
                               [type |-> "item_update", id |-> i]>>
        /\ changed' = [changed EXCEPT ![i] = @ + 1]
    /\ idx' = idx + 1
    /\ pc' = "loop"
    /\ UNCHANGED <<clock, snapshot, commits, syncs, runs, pre>>
    /\ UNCHANGED taskVars
    /\ UNCHANGED env

\* lines 143, 145-148: is_due(self.today) false, increase and maybe delete
Increment ==
    /\ pc = "loop"
    /\ idx <= Len(snapshot)
    /\ LET i == snapshot[idx] IN
        /\ is_habit(items[i])
        /\ ~is_due(items[i], today)
        /\ items' = [items EXCEPT ![i] = IncrementStep(items[i])]
        /\ ev' = [ev EXCEPT ![i].cmp = clock, ![i].done = TRUE]
        /\ queue' = queue \o IncrementCmds(i, items[i])
        /\ changed' = [changed EXCEPT ![i] = @ + 1]
    /\ idx' = idx + 1
    /\ UNCHANGED <<clock, pc, snapshot, commits, syncs, runs, pre>>
    /\ UNCHANGED taskVars
    /\ UNCHANGED env

Commit_InLoop ==
    /\ pc = "loop"
    /\ commits < Len(snapshot) + 1
    /\ queue' = <<>>
    /\ commits' = commits + 1
    /\ pc' = IF idx > Len(snapshot) THEN "done" ELSE "loop"
    /\ UNCHANGED <<clock, items, snapshot, idx, syncs, runs, pre, ev, changed>>
    /\ UNCHANGED taskVars
    /\ UNCHANGED env

\* line 149: api.commit() after the loop
Commit ==
    /\ pc = "loop"
    /\ idx > Len(snapshot)
    /\ queue' = <<>>
    /\ commits' = commits + 1
    /\ pc' = "done"
    /\ UNCHANGED <<clock, items, snapshot, idx, syncs, runs, pre, ev, changed>>
    /\ UNCHANGED taskVars
    /\ UNCHANGED env

\* midnight in the user's timezone: datetime.now() moves to the next day
Tick ==
    /\ clock < MaxDay
    /\ clock' = clock + 1
    /\ changed' = [i \in Ids |-> 0]
    /\ UNCHANGED <<items, pc, snapshot, idx, queue, commits, syncs, runs,
                   pre, ev>>
    /\ UNCHANGED taskVars
    /\ UNCHANGED env

Next ==
    \/ Start
    \/ StartFail
    \/ Skip
    \/ IsDue
    \/ Reset
    \/ Increment
    \/ Commit
    \/ Tick

Spec == Init /\ [][Next]_vars

\* ------------------------------------------------------------------------
\* SpecTask: the methods of one Task, applied directly
\* ------------------------------------------------------------------------
InitTask ==
    /\ t \in TaskInputs
    /\ t_last = NoOp
    /\ t_n = 0
    /\ t_goal = current_goal(t)
    /\ clock = 1
    /\ items = [i \in Ids |-> NoOp.before]
    /\ pc = "idle"
    /\ snapshot = <<>>
    /\ idx = 1
    /\ queue = <<>>
    /\ commits = 0
    /\ syncs = 0
    /\ runs = 0
    /\ env = "key"
    /\ pre = items
    /\ ev = [i \in Ids |-> NotEvaluated]
    /\ changed = [i \in Ids |-> 0]

\* task.set_streak(streak, goal)
T_set_streak ==
    /\ t_n < MaxOps
    /\ \E streak \in Nums, goal \in Nums :
        /\ t' = set_streak(t, streak, goal)
        /\ t_last' = [op |-> "set_streak", streak |-> streak, goal |-> goal,
                      today |-> PyNone, before |-> t]
        /\ t_goal' = IF get_habit(t) # NoMatch THEN goal ELSE t_goal
    /\ t_n' = t_n + 1
    /\ UNCHANGED runVars

\* task.increase(); without a token current_streak raises and nothing changes
T_increase ==
    /\ t_n < MaxOps
    /\ get_habit(t) # NoMatch
    /\ t' = increase(t, 1)
    /\ t_last' = [op |-> "increase", streak |-> 0, goal |-> 0,
                  today |-> PyNone, before |-> t]
    /\ t_n' = t_n + 1
    /\ UNCHANGED t_goal
    /\ UNCHANGED runVars

\* task.decrease(today)
T_decrease ==
    /\ t_n < MaxOps
    /\ get_habit(t) # NoMatch
    /\ \E d \in Days :
        /\ t' = decrease(t, TODOIST_DATE_FORMAT(d))
        /\ t_last' = [op |-> "decrease", streak |-> 0, goal |-> 0,
                      today |-> TODOIST_DATE_FORMAT(d), before |-> t]
    /\ t_n' = t_n + 1
    /\ UNCHANGED t_goal
    /\ UNCHANGED runVars

\* task.reset_to_zero(today)
T_reset_to_zero ==
    /\ t_n < MaxOps
    /\ get_habit(t) # NoMatch
    /\ \E d \in Days :
        /\ t' = reset_to_zero(t, TODOIST_DATE_FORMAT(d))
        /\ t_last' = [op |-> "reset_to_zero", streak |-> 0, goal |-> 0,
                      today |-> TODOIST_DATE_FORMAT(d), before |-> t]
    /\ t_n' = t_n + 1
    /\ UNCHANGED t_goal
    /\ UNCHANGED runVars

NextTask ==
    \/ T_set_streak
    \/ T_increase
    \/ T_decrease
    \/ T_reset_to_zero

SpecTask == InitTask /\ [][NextTask]_vars

\* ------------------------------------------------------------------------
\* Vocabulary of the properties
\* ------------------------------------------------------------------------
\* the content holds a substring of the form [day <digits>/<digits>]
HasToken(content) == \E k \in 1..Len(content) : MatchAt(content, k) # NoMatch

\* the due entry exists and its date is not empty
HasDate(due) == due.isdict /\ due.hasdate /\ due.date # <<>>

ActiveHabit(item) ==
    ~item.in_history /\ HasDate(item.due) /\ HasToken(item.content)

\* the same of an item whose first token, if any, is m
ActiveWith(item, m) ==
    ~item.in_history /\ HasDate(item.due) /\ m # NoMatch

\* the pass is done with item i
Done(i) == ev[i].done

\* the pass is done with i and compared its due date with a today equal to
\* it (line 143)
ComparedEqual(i) ==
    /\ Done(i) /\ ev[i].cmp \in Days
    /\ pre[i].due.date = TODOIST_DATE_FORMAT(ev[i].cmp)

\* the pass is done with i and compared its due date with a today that
\* differs from it (line 143)
ComparedDifferent(i) ==
    /\ Done(i) /\ ev[i].cmp \in Days
    /\ pre[i].due.date # TODOIST_DATE_FORMAT(ev[i].cmp)

\* ... and i was an active habit
OnIncrementPath(i) == ComparedEqual(i) /\ ActiveHabit(pre[i])

OnResetPath(i) == ComparedDifferent(i) /\ ActiveHabit(pre[i])

\* the numbers of a token found by get_habit
StreakOf(m) == ParseInt(m.g1)

GoalOf(m) == ParseInt(m.g2)

\* the text with its first token replaced, everything else kept
ReplaceFirst(content, days) ==
    LET m == re_search(content) IN
    IF m = NoMatch THEN content
    ELSE SubSeq(content, 1, m.start - 1) \o days
             \o SubSeq(content, m.stop + 1, Len(content))

\* ------------------------------------------------------------------------
\* Properties
\* ------------------------------------------------------------------------
\* C1: for every item a pass is done with, is_habit() held of it exactly when
\* its content has a token, its due entry has a non-empty date and it is not
\* archived; and the pass acted on it (changed it) exactly when is_habit()
\* held of it.
C1_IsHabitGate ==
    \A i \in Ids :
        Done(i)
        => /\ is_habit(pre[i]) <=>
                  (HasToken(pre[i].content) /\ HasDate(pre[i].due)
                       /\ ~pre[i].in_history)
           /\ (items[i] # pre[i]) <=> is_habit(pre[i])

\* an acted-on habit next to an archived task with token and date left alone
C1_Witness ==
    \E i, j \in Ids :
        /\ Done(i) /\ is_habit(pre[i]) /\ items[i] # pre[i]
        /\ Done(j) /\ HasToken(pre[j].content) /\ HasDate(pre[j].due)
        /\ pre[j].in_history /\ items[j] = pre[j]

\* C2: an item without due date, or archived, or without token keeps its
\* content and its due value and is not deleted by a pass, and no command
\* is queued for it, whatever today is.
C2_SkipFrame ==
    \A i \in Ids :
        (Done(i) /\ (~HasDate(pre[i].due) \/ pre[i].in_history
                        \/ ~HasToken(pre[i].content)))
        => /\ items[i].content = pre[i].content
           /\ items[i].due = pre[i].due
           /\ ~items[i].is_deleted
           /\ \A k \in 1..Len(queue) : queue[k].id # i

\* on the second day, an archived habit whose due date is that day was passed
C2_Witness ==
    \E i \in Ids :
        /\ Done(i) /\ pre[i].in_history /\ HasToken(pre[i].content)
        /\ clock = 2 /\ pre[i].due.date = TODOIST_DATE_FORMAT(1)
        /\ pc = "done"

\* C3: an active habit whose due date differs from the today of line 143 has
\* streak 0 and its old goal after the pass, its due is the recurrence string
\* 'ev day starting <today>' with the today of line 144 (no 'date' left),
\* and it is not deleted, whatever streak and goal were.
C3_Reset ==
    \A i \in Ids :
        ComparedDifferent(i)
        => LET now == get_habit(items[i])
               was == get_habit(pre[i]) IN
           ActiveWith(pre[i], was) =>
           /\ now # NoMatch
           /\ StreakOf(now) = 0
           /\ GoalOf(now) = GoalOf(was)
           /\ ev[i].arg \in Days /\ ev[i].cmp <= ev[i].arg /\ ev[i].arg <= clock
           /\ items[i].due = DueString(TODOIST_DATE_FORMAT(ev[i].arg))
           /\ ~items[i].is_deleted

\* one habit with a later due date and one with an earlier due date were both
\* reset in the same pass, one of them with streak >= goal before
C3_Witness ==
    \E i, j \in Ids :
        /\ OnResetPath(i) /\ OnResetPath(j)
        /\ pre[i].due.date = TODOIST_DATE_FORMAT(2) /\ ev[i].cmp = 1
        /\ pre[j].due.date = TODOIST_DATE_FORMAT(1) /\ ev[j].cmp = 2
        /\ current_streak(pre[i]) >= current_goal(pre[i])
        /\ current_streak(pre[j]) > 0

\* C4: an active habit whose due date equals today has streak + 1 and its
\* old goal in the token after the pass, written in plain base 10, and its
\* due value is the one it had.
C4_Increment ==
    \A i \in Ids :
        ComparedEqual(i)
        => LET now == get_habit(items[i])
               was == get_habit(pre[i]) IN
           ActiveWith(pre[i], was) =>
           /\ now # NoMatch
           /\ StreakOf(now) = StreakOf(was) + 1
           /\ GoalOf(now) = GoalOf(was)
           /\ now.g1 = FormatInt(StreakOf(was) + 1)
           /\ items[i].due = pre[i].due

\* 9/10 became 10/10 and the due date is still today's
C4_Witness ==
    \E i \in Ids :
        /\ OnIncrementPath(i)
        /\ current_streak(pre[i]) = 9 /\ current_streak(items[i]) = 10
        /\ items[i].due.date = TODOIST_DATE_FORMAT(ev[i].cmp)

Outcomes(i) ==
    LET now == get_habit(items[i])
        was == get_habit(pre[i])
        plusOne == StreakOf(now) = StreakOf(was) + 1
        sameDue == items[i].due = pre[i].due
        recurrence == /\ items[i].due.isdict /\ ~items[i].due.hasdate
                      /\ items[i].due.fmt = "ev day starting {}" IN
    {o \in {"Skip", "Reset", "Increment", "IncrementDelete"} :
        \/ o = "Skip" /\ items[i] = pre[i]
        \/ o = "Reset" /\ recurrence /\ ~items[i].is_deleted
               /\ StreakOf(now) = 0
        \/ o = "Increment" /\ sameDue /\ ~items[i].is_deleted
               /\ items[i].content # pre[i].content /\ plusOne
        \/ o = "IncrementDelete" /\ sameDue /\ items[i].is_deleted /\ plusOne}

\* the commands of a given type queued for item i
Queued(i, type) ==
    {k \in 1..Len(queue) : queue[k].id = i /\ queue[k].type = type}

\* C6: every item a pass is done with shows exactly one of Skip, Reset,
\* Increment, Increment+Delete; an item whose due was rewritten (reset) is
\* neither deleted nor incremented, and no delete command is queued for it.
C6_OneOutcome ==
    \A i \in Ids :
        Done(i)
        => /\ Cardinality(Outcomes(i)) = 1
           /\ (items[i].due # pre[i].due)
                  => /\ ~items[i].is_deleted
                     /\ Queued(i, "item_delete") = {}
                     /\ current_streak(items[i]) # current_streak(pre[i]) + 1

\* a reset habit whose streak already met its goal (0/0) stays undeleted,
\* next to a habit that was incremented and deleted
C6_Witness ==
    \E i, j \in Ids :
        /\ Done(i) /\ Outcomes(i) = {"Reset"}
        /\ current_streak(items[i]) >= current_goal(items[i])
        /\ Done(j) /\ Outcomes(j) = {"IncrementDelete"}
        /\ pc = "loop"

\* C7 (as claimed): over one clock day the streak of an item is rewritten,
\* by increment or reset, at most once, however often update_streak runs.
C7_OncePerDay == \A i \in Ids : changed[i] <= 1

\* C8 (as claimed): set_streak replaces the first token only; a second token
\* keeps its numbers.
C8_FirstTokenOnly ==
    t_last.op = "set_streak"
    => t.content = ReplaceFirst(t_last.before.content,
                                FormatDays(t_last.streak, t_last.goal))

\* C9: after set_streak(streak, goal) on a content with a token,
\* current_streak = streak and current_goal = goal.
C9_RoundTrip ==
    (t_last.op = "set_streak" /\ HasToken(t_last.before.content))
    => /\ get_habit(t) # NoMatch
       /\ current_streak(t) = t_last.streak
       /\ current_goal(t) = t_last.goal

\* a two-digit streak written over a token with leading zeros
C9_Witness ==
    /\ t_last.op = "set_streak"
    /\ get_habit(t_last.before).g1 = <<"0", "7">>
    /\ t_last.streak > 9 /\ t_last.goal = 0
    /\ current_streak(t) = t_last.streak

\* C10: decrease(today) leaves the token in place with streak s - 1, or 0
\* when s was 0, keeps the goal, and sets due to 'ev day starting <today>'.
C10_Decrease ==
    t_last.op = "decrease"
    => LET s == current_streak(t_last.before) IN
       /\ get_habit(t) # NoMatch
       /\ current_streak(t) = (IF s = 0 THEN 0 ELSE s - 1)
       /\ current_streak(t) >= 0
       /\ current_goal(t) = current_goal(t_last.before)
       /\ t.due = DueString(t_last.today)

\* decrease on streak 0 with a goal above 0
C10_Witness ==
    /\ t_last.op = "decrease"
    /\ current_streak(t_last.before) = 0
    /\ current_goal(t_last.before) = 2
    /\ current_streak(t) = 0
    /\ t.due.arg = TODOIST_DATE_FORMAT(2)

\* the items of the enumeration of this pass
InSnapshot == {snapshot[k] : k \in 1..Len(snapshot)}

\* C11: while the loop of update_streak runs nothing has been committed and
\* every item the pass has changed has its update in the queue; once main
\* has returned, commit was called exactly once, and every item of the
\* enumeration had been evaluated before.
C11_CommitOnceAtEnd ==
    /\ commits <= 1
    /\ pc \in {"loop", "reset"}
           => /\ commits = 0
              /\ \A i \in Ids :
                     (Done(i) /\ items[i] # pre[i])
                         => Queued(i, "item_update") # {}
    /\ pc = "done"
           => /\ commits = 1
              /\ queue = <<>>
              /\ \A i \in InSnapshot : Done(i)
    /\ commits = 1 => pc = "done"

\* a pass that reset one habit and deleted another has committed
C11_Witness ==
    /\ pc = "done" /\ commits = 1
    /\ \E i, j \in Ids :
        /\ Done(i) /\ items[i].due # pre[i].due
        /\ Done(j) /\ items[j].is_deleted /\ ~pre[j].is_deleted

\* C12: a process ends in the error state exactly when TODOIST_APIKEY is
\* unset or empty, and such a process has synced nothing, queued nothing,
\* committed nothing and left every item as it was.
C12_MissingCredential ==
    /\ pc # "idle" => (pc = "error" <=> env \in {"None", ""})
    /\ pc = "error"
           => /\ syncs = 0
              /\ commits = 0
              /\ queue = <<>>
              /\ snapshot = <<>>
              /\ items = pre
              /\ \A i \in Ids : ~Done(i)

\* an empty TODOIST_APIKEY, after an earlier run that had a token and
\* deleted a habit
C12_Witness ==
    /\ pc = "error" /\ env = "" /\ runs = 1
    /\ \E i \in Ids : items[i].is_deleted

\* C13: wherever update_streak reads current_streak or current_goal the
\* content holds a token: before reset_to_zero (line 144), before increase
\* (line 146), and after the rewrite, where habbit_complete reads (line 147).
C13_TokenAtEveryRead ==
    /\ pc = "reset" => get_habit(items[snapshot[idx]]) # NoMatch
    /\ \A i \in Ids :
           (Done(i) /\ ev[i].cmp \in Days)
               => /\ get_habit(pre[i]) # NoMatch
                  /\ get_habit(items[i]) # NoMatch

\* habbit_complete has read the token 10/10 that increase had just written
C13_Witness ==
    \E i \in Ids :
        /\ Done(i) /\ ev[i].cmp \in Days /\ ev[i].arg = 0
        /\ get_habit(items[i]).g1 = <<"1", "0">>
        /\ items[i].is_deleted

\* C15: with one today for the whole pass, what a pass leaves of an item is
\* the loop body applied to that item alone, whatever its position in the
\* enumeration; an item the loop has not reached yet, or that is not in the
\* enumeration, is as it was synced.
FixedToday ==
    \A i \in Ids : ev[i].cmp \in {0, clock} /\ ev[i].arg \in {0, clock}

C15_OrderInsensitive ==
    /\ \A i \in Ids :
           (~Done(i) /\ ~(pc = "reset" /\ snapshot[idx] = i)) => items[i] = pre[i]
    /\ (pc = "done" /\ FixedToday)
           => \A i \in Ids :
                  items[i] = IF i \in InSnapshot
                             THEN Evaluate(pre[i], today, today)
                             ELSE pre[i]

\* a pass on one day has deleted the first item and reset a later one
C15_Witness ==
    /\ pc = "done" /\ FixedToday /\ Len(snapshot) >= 2
    /\ items[snapshot[1]].is_deleted
    /\ \E k \in 2..Len(snapshot) :
           items[snapshot[k]].due # pre[snapshot[k]].due

\* C16 (as claimed): a pass uses one value of today: the date in the due
\* string of a reset item is the date its due date was compared with, and
\* all items of the pass are compared with the same date.
C16_SingleToday ==
    /\ \A i \in Ids :
           (Done(i) /\ ev[i].arg # 0)
               => items[i].due.arg = TODOIST_DATE_FORMAT(ev[i].cmp)
    /\ \A i, j \in Ids :
           (ev[i].cmp # 0 /\ ev[j].cmp # 0) => ev[i].cmp = ev[j].cmp

\* C14: after any sequence of increase, decrease and reset_to_zero the first
\* token is still there, its streak is not negative, and its goal is the
\* goal the sequence started from.
C14_GoalKept ==
    (t_last.op \in {"increase", "decrease", "reset_to_zero"})
    => /\ get_habit(t) # NoMatch
       /\ current_streak(t) >= 0
       /\ current_goal(t) = t_goal

\* a decrease at streak 0 followed by an increase, goal above 0
C14_Witness ==
    /\ t_n = 2 /\ t_last.op = "increase"
    /\ t_last.before.due.fmt = "ev day starting {}"
    /\ current_streak(t_last.before) = 0
    /\ current_streak(t) = 1
    /\ current_goal(t) = t_goal /\ t_goal = 10

====
